---- MODULE Spec2Model ----
(***************************************************************************)
(* A model of the document ingestion and retrieval pipeline of             *)
(* backend/services/document_service.py: the text chunker (chunk_text),    *)
(* and the document catalog kept in the Qdrant collection (process_pdf,    *)
(* get_document, update_document_metadata, delete_document).               *)
(*                                                                         *)
(* Offsets into a text are Python offsets (0-based); the character at      *)
(* offset i of a text t is t[i + 1].  A text is a sequence of one-         *)
(* character strings.                                                      *)
(***************************************************************************)
EXTENDS Integers, Sequences, FiniteSets, TLC

VARIABLES
    chunk_size,     \* self.chunk_size
    chunk_overlap,  \* self.chunk_overlap
    text,           \* chunk_text: the argument
    start,          \* chunk_text: the local start
    chunks,         \* chunk_text: the local chunks
    pc,             \* chunk_text: "idle" (not called), "loop", "done" (returned)
    cuts,           \* history: the <<start, end>> of every iteration so far
    store,          \* the collection: point id -> point
    now,            \* the wall clock read by datetime.now()
    prev,           \* history: the collection before the last catalog call
    last,           \* history: the last catalog call and what it did
    calls,          \* history: the number of catalog calls made so far
    collections,    \* the collections of the Qdrant server: name -> vector size
    started,        \* whether the startup event of the application has run
    running,        \* the call that is between its scroll and its write, if any
    returned,       \* history: the last two calls that have returned, in order
    solo,           \* history: per name, the collection its calls alone produce
    evaluation_history, \* EvaluationService.evaluation_history: the entries kept
    evaluations,    \* the number of evaluate_response calls started (their timestamps)
    in_flight,      \* the evaluate_response calls awaiting asyncio.gather
    overlapped,     \* history: the number of calls begun as separate steps
    completed       \* history: every evaluation that reached the append, in order

chunkvars == <<text, start, chunks, pc, cuts>>
cfgvars == <<chunk_size, chunk_overlap, collections, started>>
storevars == <<store, now, prev, last, calls>>
loopvars == <<running, returned, solo>>
evalvars == <<evaluation_history, evaluations, in_flight, overlapped, completed>>
vars == <<chunk_size, chunk_overlap, text, start, chunks, pc, cuts, store, now, prev, last, calls,
          collections, started, running, returned, solo,
          evaluation_history, evaluations, in_flight, overlapped, completed>>

----------------------------------------------------------------------------
(* Bounds of the model *)

\* Longest text enumerated character by character.
MaxLen == 4
\* Largest chunk_size (and chunk_overlap) enumerated with those texts.
MaxChunkSize == 3
\* Iterations of the chunking loop that are followed before the model stops.
MaxIter == 6
\* Point ids that exist: the collection never holds more points than this.
MaxPoints == 4
\* Catalog calls that are followed before the model stops.
MaxCalls == 3
\* Largest value of the wall clock.
MaxClock == 1
\* The page size of scroll (limit=1000 in the code), scaled down so that a
\* document larger than one page fits in the model.
ScrollLimit == 2

\* Largest limit asked of a search.
MaxLimit == 2
MaxEvals == 3
\* The score of a stored vector that matches the query best.
ScoreTop == 9

(* Program constants *)

\* range(max(0, end - 100), end)
Window == 100
\* VectorParams(size=1536)
VectorSize == 1536
\* text[:100] of a chunk's text_preview
PreviewLen == 100
\* int(os.getenv("CHUNK_SIZE", 1000))
DefaultChunkSize == 1000
\* int(os.getenv("CHUNK_OVERLAP", 200))
DefaultChunkOverlap == 200

----------------------------------------------------------------------------
(* Python built-ins used by the code *)

Max(a, b) == IF a >= b THEN a ELSE b
Min(a, b) == IF a <= b THEN a ELSE b

\* s[a:b] of Python: negative offsets count from the end, all are clamped.
PyClamp(n, i) == IF i < 0 THEN Max(n + i, 0) ELSE Min(i, n)
PySlice(s, a, b) == SubSeq(s, PyClamp(Len(s), a) + 1, PyClamp(Len(s), b))

Whitespace == {" ", "\n", "\t"}

RECURSIVE LStrip(_)
LStrip(s) == IF s # <<>> /\ Head(s) \in Whitespace THEN LStrip(Tail(s)) ELSE s

RECURSIVE RStrip(_)
RStrip(s) ==
    IF s # <<>> /\ s[Len(s)] \in Whitespace THEN RStrip(SubSeq(s, 1, Len(s) - 1)) ELSE s

\* str.strip()
Strip(s) == RStrip(LStrip(s))

----------------------------------------------------------------------------
(* chunk_text *)

sentence_endings == << <<".", " ">>, <<"!", " ">>, <<"?", " ">>, <<"\n", "\n">> >>

\* One pass of the inner loop "for ending in sentence_endings" at offset i:
\* every matching ending overwrites best_break, so the last one in the list
\* that matches decides.
ScanEndings(t, i, best) ==
    LET matching == {k \in DOMAIN sentence_endings :
                        PySlice(t, i, i + Len(sentence_endings[k])) = sentence_endings[k]}
        k == CHOOSE k \in matching : \A j \in matching : j <= k
    IN  IF matching = {} THEN best ELSE i + Len(sentence_endings[k])

\* The outer loop "for i in range(max(0, end - 100), end)": best_break after
\* the iterations at the offsets lo .. hi - 1, which began with best_break =
\* best.  The iterations of the first half of the range run first, and those
\* of the second half go on from the best_break they left (the range is
\* halved, and the first half evaluated first, to keep the evaluation shallow).
RECURSIVE ScanWindow(_, _, _, _)
ScanWindow(t, lo, hi, best) ==
    IF hi <= lo THEN best
    ELSE IF hi = lo + 1 THEN ScanEndings(t, lo, best)
    ELSE LET mid == (lo + hi) \div 2
             first == ScanWindow(t, lo, mid, best)
         IN  IF first = best THEN ScanWindow(t, mid, hi, best)
             ELSE ScanWindow(t, mid, hi, first)

\* A scan that keeps the first sentence ending of the window, not the last.
BestBreakLeftmost(t, end) ==
    LET hits == {i \in Max(0, end - Window)..(end - 1) :
                    \E k \in 1..Len(sentence_endings) : PySlice(t, i, i + 2) = sentence_endings[k]}
    IN  IF hits = {} THEN end
        ELSE (CHOOSE i \in hits : \A j \in hits : i <= j) + 2

\* best_break after the scan of the window before the candidate end.
BestBreak(t, end) == ScanWindow(t, Max(0, end - Window), end, end)

\* The end of the chunk that starts at s.
ChunkEnd(t, s, size) ==
    LET end == s + size
    IN  IF end < Len(t) THEN BestBreak(t, end) ELSE end

\* An iteration that appends the slice as it was cut.
EmitUnstripped(cs, t, s, e) ==
    LET chunk == PySlice(t, s, e)
    IN  IF chunk # <<>> THEN Append(cs, chunk) ELSE cs

\* The chunks after the iteration that cuts [s, e): a blank chunk is dropped.
Emit(cs, t, s, e) ==
    LET chunk == Strip(PySlice(t, s, e))
    IN  IF chunk # <<>> THEN Append(cs, chunk) ELSE cs

\* One iteration of "while start < len(text)".
ChunkLoop ==
    /\ pc = "loop"
    /\ start < Len(text)
    /\ Len(cuts) < MaxIter
    /\ LET end == ChunkEnd(text, start, chunk_size)
       IN  /\ chunks' = Emit(chunks, text, start, end)
           /\ start' = end - chunk_overlap
           /\ cuts' = Append(cuts, <<start, end>>)
    /\ UNCHANGED <<text, pc, cfgvars, storevars, loopvars, evalvars>>

\* The loop condition fails: return chunks.
ChunkReturn ==
    /\ pc = "loop"
    /\ start >= Len(text)
    /\ pc' = "done"
    /\ UNCHANGED <<text, start, chunks, cuts, cfgvars, storevars, loopvars, evalvars>>

\* chunk_text as a function: the chunks returned, or "hang" when the loop has
\* not ended after fuel iterations.
RECURSIVE RunChunker(_, _, _, _, _, _)
RunChunker(t, size, overlap, s, cs, fuel) ==
    IF s >= Len(t) THEN [hang |-> FALSE, chunks |-> cs]
    ELSE IF fuel = 0 THEN [hang |-> TRUE, chunks |-> cs]
    ELSE LET end == ChunkEnd(t, s, size)
         IN  RunChunker(t, size, overlap, end - overlap, Emit(cs, t, s, end), fuel - 1)

chunk_text(t, size, overlap) == RunChunker(t, size, overlap, 0, <<>>, MaxIter)

----------------------------------------------------------------------------
(* Generic helpers *)

Range(s) == {s[i] : i \in DOMAIN s}

\* The elements of a finite set of integers in ascending order.
RECURSIVE Ascending(_)
Ascending(S) ==
    IF S = {} THEN <<>>
    ELSE LET m == CHOOSE x \in S : \A y \in S : x <= y
         IN  <<m>> \o Ascending(S \ {m})

\* {**a, **b} of Python: the keys of both, b wins on the keys they share.
DictMerge(a, b) ==
    [k \in (DOMAIN a) \cup (DOMAIN b) |-> IF k \in DOMAIN b THEN b[k] ELSE a[k]]

\* list.sort(key=lambda x: x["chunk_index"]): a stable insertion sort.
RECURSIVE InsertByIndex(_, _)
InsertByIndex(sorted, c) ==
    IF sorted = <<>> THEN <<c>>
    ELSE IF sorted[Len(sorted)].chunk_index <= c.chunk_index THEN Append(sorted, c)
    ELSE Append(InsertByIndex(SubSeq(sorted, 1, Len(sorted) - 1), c), sorted[Len(sorted)])

\* The list left in the order the store returned it.
NoSort(s) == s

RECURSIVE SortByIndex(_)
SortByIndex(s) ==
    IF s = <<>> THEN <<>>
    ELSE InsertByIndex(SortByIndex(SubSeq(s, 1, Len(s) - 1)), s[Len(s)])

----------------------------------------------------------------------------
(* The vector store (QdrantClient) as the code uses it *)

\* os.getenv("COLLECTION_NAME", "documents")
collection_name == "documents"

IdPool == 1..MaxPoints

\* The vector of a record that was read without with_vectors=True.
NoVector == <<>>

\* The embedding the provider returns for a text.
Embedding(c) == <<"embedding", c>>

\* upsert(points): insert or overwrite by id.
Upsert(st, points) ==
    [i \in (DOMAIN st) \cup {p.id : p \in Range(points)} |->
        IF \E k \in DOMAIN points : points[k].id = i
        THEN LET k == CHOOSE k \in DOMAIN points : points[k].id = i
             IN  [vector |-> points[k].vector, payload |-> points[k].payload]
        ELSE st[i]]

\* delete(points_selector=ids)
DeletePoints(st, ids) == [i \in (DOMAIN st) \ ids |-> st[i]]

\* One page of scroll: the first limit ids in id order.
ScrollPage(st, ids) ==
    LET all == Ascending(ids)
    IN  SubSeq(all, 1, Min(Len(all), ScrollLimit))

\* A scroll that ignores the source filter: the first page of all points.
ScrollUnfiltered(st, name) ==
    LET page == ScrollPage(st, DOMAIN st)
    IN  [k \in DOMAIN page |->
            [id |-> page[k], payload |-> st[page[k]].payload, vector |-> NoVector]]

\* scroll(scroll_filter=source == name, limit=1000, with_payload=True): the
\* records of the first page, without their vectors (with_vectors is not asked).
ScrollSource(st, name) ==
    LET page == ScrollPage(st, {i \in DOMAIN st : st[i].payload.source = name})
    IN  [k \in DOMAIN page |->
            [id |-> page[k], payload |-> st[page[k]].payload, vector |-> NoVector]]

PointsOf(st, name) == {i \in DOMAIN st : st[i].payload.source = name}

----------------------------------------------------------------------------
(* process_pdf *)

Names == {"a.pdf", "b.pdf"}

\* The text of a document of m letters "a".
Letters(m) == [i \in 1..m |-> "a"]

\* What get_embeddings returns for the valid chunks: one vector per chunk, the
\* provider's failure, or a response with one vector missing.  sent is the list of
\* the inputs of the calls made to the provider (none, or one call).
ProviderOutcomes == {"ok", "error", "short"}

\* A get_embeddings that sends its input to the provider as it is.
EmbedUnfiltered(texts, outcome) ==
    IF outcome = "error" THEN [err |-> "provider", vectors |-> <<>>, sent |-> <<texts>>]
    ELSE IF outcome = "short"
         THEN [err |-> "none", sent |-> <<texts>>,
               vectors |-> [k \in 1..(Len(texts) - 1) |-> Embedding(texts[k])]]
    ELSE [err |-> "none", sent |-> <<texts>>,
          vectors |-> [k \in DOMAIN texts |-> Embedding(texts[k])]]

get_embeddings(texts, outcome) ==
    LET valid_texts == SelectSeq([k \in DOMAIN texts |-> Strip(texts[k])], LAMBDA c : c # <<>>)
    IN  IF valid_texts = <<>> THEN [err |-> "empty_input", vectors |-> <<>>, sent |-> <<>>]
        ELSE IF outcome = "error"
             THEN [err |-> "provider", vectors |-> <<>>, sent |-> <<valid_texts>>]
        ELSE IF outcome = "short"
             THEN [err |-> "none", sent |-> <<valid_texts>>,
                   vectors |-> [k \in 1..(Len(valid_texts) - 1) |-> Embedding(valid_texts[k])]]
        ELSE [err |-> "none", sent |-> <<valid_texts>>,
              vectors |-> [k \in DOMAIN valid_texts |-> Embedding(valid_texts[k])]]

\* The points process_pdf builds from the valid chunks and their embeddings.
BuildPoints(filename, valid_chunks, embeddings, document_metadata, ids) ==
    [k \in 1..Min(Len(valid_chunks), Len(embeddings)) |->
        [id |-> ids[k],
         vector |-> embeddings[k],
         payload |-> [text |-> valid_chunks[k],
                      source |-> filename,
                      chunk_index |-> k - 1,
                      total_chunks |-> Len(valid_chunks),
                      document_metadata |-> document_metadata,
                      chunk_length |-> Len(valid_chunks[k])]]]

NoCall(st) == [err |-> "none", store |-> st, upserts |-> <<>>, deleted |-> {}, scrolled |-> <<>>]
Raise(st, e) == [NoCall(st) EXCEPT !.err = e]

\* process_pdf on a text whose chunking ends: the error raised or "none", the
\* collection afterwards and the batches it upserted.
ProcessPdfUnchecked(st, t, filename, file_size, page_count, clock, outcome, ids, cks) ==
    LET valid_chunks == SelectSeq(cks, LAMBDA c : Strip(c) # <<>>)
        emb == get_embeddings(valid_chunks, outcome)
        document_metadata == [filename |-> filename, file_size |-> file_size,
                              page_count |-> page_count, total_chunks |-> Len(valid_chunks),
                              processed_at |-> clock, text_length |-> Len(t)]
        points == BuildPoints(filename, valid_chunks, emb.vectors, document_metadata, ids)
    IN  IF Strip(t) = <<>> THEN Raise(st, "empty_text")
        ELSE IF emb.err # "none" THEN Raise(st, emb.err)
        ELSE [NoCall(st) EXCEPT !.store = Upsert(st, points), !.upserts = <<points>>]

ProcessPdf(st, t, filename, file_size, page_count, clock, outcome, ids, cks) ==
    LET valid_chunks == SelectSeq(cks, LAMBDA c : Strip(c) # <<>>)
        emb == get_embeddings(valid_chunks, outcome)
        document_metadata == [filename |-> filename, file_size |-> file_size,
                              page_count |-> page_count, total_chunks |-> Len(valid_chunks),
                              processed_at |-> clock, text_length |-> Len(t)]
        points == BuildPoints(filename, valid_chunks, emb.vectors, document_metadata, ids)
    IN  IF Strip(t) = <<>> THEN Raise(st, "empty_text")
        ELSE IF cks = <<>> THEN Raise(st, "empty_chunks")
        ELSE IF valid_chunks = <<>> THEN Raise(st, "empty_chunks")
        ELSE IF emb.err # "none" THEN Raise(st, emb.err)
        ELSE IF Len(valid_chunks) # Len(emb.vectors) THEN Raise(st, "mismatch")
        ELSE [NoCall(st) EXCEPT !.store = Upsert(st, points), !.upserts = <<points>>]

----------------------------------------------------------------------------
(* get_document *)

\* None when no point matches, else the view built from the scrolled page.
get_document(st, document_name) ==
    LET scrolled == ScrollSource(st, document_name)
        listed == [k \in DOMAIN scrolled |->
                      [id |-> scrolled[k].id,
                       text |-> scrolled[k].payload.text,
                       chunk_index |-> scrolled[k].payload.chunk_index,
                       chunk_length |-> scrolled[k].payload.chunk_length]]
        document_metadata == scrolled[1].payload.document_metadata
    IN  IF scrolled = <<>> THEN [found |-> FALSE]
        ELSE [found |-> TRUE,
              name |-> document_name,
              filename |-> document_metadata.filename,
              file_size |-> document_metadata.file_size,
              page_count |-> document_metadata.page_count,
              total_chunks |-> document_metadata.total_chunks,
              processed_at |-> document_metadata.processed_at,
              text_length |-> document_metadata.text_length,
              actual_chunks |-> Len(listed),
              chunks |-> SortByIndex(listed)]

----------------------------------------------------------------------------
(* update_document_metadata *)

\* The metadata patches the callers send.
Patches == {[a |-> 1], [a |-> 2]}

\* The readings of datetime.now() during n iterations that begin at clock lo.
Stamps(n, lo) ==
    {s \in [1..n -> lo..MaxClock] : \A k \in 1..(n - 1) : s[k] <= s[k + 1]}

\* updated_doc_metadata of the k-th scrolled point.
MergedMetadata(current_doc_metadata, metadata, stamp) ==
    DictMerge(DictMerge(current_doc_metadata, metadata), [updated_at |-> stamp])

\* points_to_update: every scrolled point with its id, the vector of the
\* scrolled record and the payload with the merged metadata.
PointsToUpdate(scrolled, metadata, stamps) ==
    [k \in DOMAIN scrolled |->
        [id |-> scrolled[k].id,
         vector |-> scrolled[k].vector,
         payload |-> [scrolled[k].payload EXCEPT !.document_metadata =
                         MergedMetadata(@, metadata, stamps[k])]]]

\* update_document_metadata.  accepted says whether PointStruct and the store
\* take a point whose vector is None, or PointStruct raises a validation error.
\* What update_document_metadata does once the scroll has returned.
UpdateAfterScroll(st, scrolled, metadata, stamps, accepted) ==
    LET points_to_update == PointsToUpdate(scrolled, metadata, stamps)
        seen == [k \in DOMAIN scrolled |-> [id |-> scrolled[k].id, vector |-> scrolled[k].vector]]
    IN  IF scrolled = <<>> THEN Raise(st, "not_found")
        ELSE IF \E k \in DOMAIN points_to_update : points_to_update[k].vector = NoVector /\ ~accepted
             THEN [Raise(st, "validation") EXCEPT !.scrolled = seen]
        ELSE [NoCall(st) EXCEPT !.store = Upsert(st, points_to_update),
                                !.upserts = <<points_to_update>>,
                                !.scrolled = seen]

update_document_metadata(st, document_name, metadata, stamps, accepted) ==
    UpdateAfterScroll(st, ScrollSource(st, document_name), metadata, stamps, accepted)

----------------------------------------------------------------------------
(* delete_document *)

\* A delete_document that does not look whether the scroll found anything.
DeleteUnguarded(st, document_name) ==
    LET scrolled == ScrollSource(st, document_name)
        point_ids == [k \in DOMAIN scrolled |-> scrolled[k].id]
        seen == [k \in DOMAIN scrolled |-> [id |-> scrolled[k].id, vector |-> scrolled[k].vector]]
    IN  [NoCall(st) EXCEPT !.store = DeletePoints(st, Range(point_ids)),
                            !.deleted = Range(point_ids),
                            !.scrolled = seen]

\* What delete_document does once the scroll has returned.
DeleteAfterScroll(st, scrolled) ==
    LET point_ids == [k \in DOMAIN scrolled |-> scrolled[k].id]
        seen == [k \in DOMAIN scrolled |-> [id |-> scrolled[k].id, vector |-> scrolled[k].vector]]
    IN  IF point_ids = <<>> THEN Raise(st, "not_found")
        ELSE [NoCall(st) EXCEPT !.store = DeletePoints(st, Range(point_ids)),
                                !.deleted = Range(point_ids),
                                !.scrolled = seen]

delete_document(st, document_name) ==
    DeleteAfterScroll(st, ScrollSource(st, document_name))

----------------------------------------------------------------------------
(* The read operations *)

\* What a read call did and answered: the calls it made to the embedding
\* provider (sent) and to the store's search (queried), the hits the search
\* returned and the value the method returns.
Reply(st, e, seen, sent, queried, hits, result) ==
    [err |-> e, store |-> st, upserts |-> <<>>, deleted |-> {}, scrolled |-> seen,
     sent |-> sent, queried |-> queried, hits |-> hits, result |-> result]

\* scroll(limit=1000, with_payload=True): the first page of all the points.
ScrollAll(st) ==
    LET page == ScrollPage(st, DOMAIN st)
    IN  [k \in DOMAIN page |->
            [id |-> page[k], payload |-> st[page[k]].payload, vector |-> NoVector]]

\* The similarity the store computes between the query vector and a stored
\* vector: here, the closer the lengths of the two embedded texts the higher.
Score(query_vector, vector) ==
    IF vector = NoVector THEN 0
    ELSE LET a == Len(query_vector[2])
             b == Len(vector[2])
         IN  ScoreTop - (IF a < b THEN b - a ELSE a - b)

\* The ids of S by descending score against the query vector (ties by id).
RECURSIVE Ranked(_, _, _)
Ranked(st, query_vector, S) ==
    IF S = {} THEN <<>>
    ELSE LET best == CHOOSE i \in S : \A j \in S :
                         \/ Score(query_vector, st[i].vector) > Score(query_vector, st[j].vector)
                         \/ /\ Score(query_vector, st[i].vector) = Score(query_vector, st[j].vector)
                            /\ i <= j
         IN  <<best>> \o Ranked(st, query_vector, S \ {best})

\* qdrant_client.search(query_vector, limit, with_payload=True): the limit
\* best points, best first.
StoreSearch(st, query_vector, limit) ==
    LET ranked == Ranked(st, query_vector, DOMAIN st)
    IN  [k \in 1..Min(limit, Len(ranked)) |->
            [id |-> ranked[k],
             score |-> Score(query_vector, st[ranked[k]].vector),
             payload |-> st[ranked[k]].payload]]

\* A search that keeps the query in the collection as a point of its own.
SearchKeepingQuery(st, query, limit, outcome, zero_ok) ==
    LET emb == get_embeddings(<<query>>, outcome)
        kept == [id |-> MaxPoints,
                 vector |-> Embedding(query),
                 payload |-> [text |-> query, source |-> "query", chunk_index |-> 0,
                              total_chunks |-> 1, chunk_length |-> Len(query),
                              document_metadata |-> [filename |-> "query"]]]
        search_result == StoreSearch(st, Embedding(query), limit)
    IN  Reply(Upsert(st, <<kept>>), emb.err, <<>>, emb.sent, <<>>, search_result, <<>>)

\* search_similar_chunks.  zero_ok says whether the store answers a search
\* with limit = 0 by an empty list, or refuses the request.
search_similar_chunks(st, query, limit, outcome, zero_ok) ==
    LET emb == get_embeddings(<<query>>, outcome)
        query_embedding == emb.vectors[1]
        search_result == StoreSearch(st, query_embedding, limit)
        results == [k \in DOMAIN search_result |->
                       [text |-> search_result[k].payload.text,
                        source |-> search_result[k].payload.source,
                        score |-> search_result[k].score,
                        chunk_index |-> search_result[k].payload.chunk_index,
                        chunk_length |-> search_result[k].payload.chunk_length]]
    IN  IF emb.err # "none" THEN Reply(st, emb.err, <<>>, emb.sent, <<>>, <<>>, <<>>)
        ELSE IF emb.vectors = <<>> THEN Reply(st, "index", <<>>, emb.sent, <<>>, <<>>, <<>>)
        ELSE IF limit = 0 /\ ~zero_ok
             THEN Reply(st, "store", <<>>, emb.sent,
                        <<[query_vector |-> query_embedding, limit |-> limit]>>, <<>>, <<>>)
        ELSE Reply(st, "none", <<>>, emb.sent,
                   <<[query_vector |-> query_embedding, limit |-> limit]>>,
                   search_result, results)

\* text[:100] + "..." if len(text) > 100 else text
TextPreview(t) ==
    IF Len(t) > PreviewLen THEN PySlice(t, 0, PreviewLen) \o <<".", ".", ".">> ELSE t

\* The keys of the documents dict of list_documents in insertion order: the
\* sources of the scrolled points, each at its first occurrence.
RECURSIVE SourcesInOrder(_)
SourcesInOrder(scrolled) ==
    IF scrolled = <<>> THEN <<>>
    ELSE LET before == SourcesInOrder(SubSeq(scrolled, 1, Len(scrolled) - 1))
             source == scrolled[Len(scrolled)].payload.source
         IN  IF source \in Range(before) THEN before ELSE Append(before, source)

\* A list_documents in which the last point met of a source sets the document
\* fields.
ListLastSeen(st) ==
    LET scrolled == ScrollAll(st)
        sources == SourcesInOrder(scrolled)
        OfSource(source) == SelectSeq(scrolled, LAMBDA point : point.payload.source = source)
        View(source) ==
            LET points == OfSource(source)
                doc_metadata == points[Len(points)].payload.document_metadata
                listed == [k \in DOMAIN points |->
                              [id |-> points[k].id,
                               chunk_index |-> points[k].payload.chunk_index,
                               chunk_length |-> points[k].payload.chunk_length,
                               text_preview |-> TextPreview(points[k].payload.text)]]
            IN  [name |-> source,
                 filename |-> doc_metadata.filename,
                 file_size |-> doc_metadata.file_size,
                 page_count |-> doc_metadata.page_count,
                 total_chunks |-> doc_metadata.total_chunks,
                 processed_at |-> doc_metadata.processed_at,
                 text_length |-> doc_metadata.text_length,
                 chunks |-> SortByIndex(listed),
                 actual_chunks |-> Len(listed)]
        seen == [k \in DOMAIN scrolled |-> [id |-> scrolled[k].id, vector |-> scrolled[k].vector]]
    IN  Reply(st, "none", seen, <<>>, <<>>, <<>>, [k \in DOMAIN sources |-> View(sources[k])])

\* list_documents: one view per source of the scrolled page, the document
\* fields taken when the source is first met, the chunks sorted at the end.
list_documents(st) ==
    LET scrolled == ScrollAll(st)
        sources == SourcesInOrder(scrolled)
        OfSource(source) == SelectSeq(scrolled, LAMBDA point : point.payload.source = source)
        View(source) ==
            LET points == OfSource(source)
                doc_metadata == points[1].payload.document_metadata
                listed == [k \in DOMAIN points |->
                              [id |-> points[k].id,
                               chunk_index |-> points[k].payload.chunk_index,
                               chunk_length |-> points[k].payload.chunk_length,
                               text_preview |-> TextPreview(points[k].payload.text)]]
            IN  [name |-> source,
                 filename |-> doc_metadata.filename,
                 file_size |-> doc_metadata.file_size,
                 page_count |-> doc_metadata.page_count,
                 total_chunks |-> doc_metadata.total_chunks,
                 processed_at |-> doc_metadata.processed_at,
                 text_length |-> doc_metadata.text_length,
                 chunks |-> SortByIndex(listed),
                 actual_chunks |-> Len(listed)]
        seen == [k \in DOMAIN scrolled |-> [id |-> scrolled[k].id, vector |-> scrolled[k].vector]]
    IN  Reply(st, "none", seen, <<>>, <<>>, <<>>, [k \in DOMAIN sources |-> View(sources[k])])

\* sum(...) of a list of numbers
RECURSIVE Sum(_)
Sum(nums) ==
    IF nums = <<>> THEN 0 ELSE Sum(SubSeq(nums, 1, Len(nums) - 1)) + nums[Len(nums)]

\* Statistics that count the file size of a document once, not once per chunk.
StatisticsPerDocument(st) ==
    LET scrolled == ScrollAll(st)
        sources == SourcesInOrder(scrolled)
        First(source) == SelectSeq(scrolled, LAMBDA point : point.payload.source = source)[1]
        total_text_length == Sum([k \in DOMAIN scrolled |-> scrolled[k].payload.chunk_length])
        seen == [k \in DOMAIN scrolled |-> [id |-> scrolled[k].id, vector |-> scrolled[k].vector]]
    IN  Reply(st, "none", seen, <<>>, <<>>, <<>>,
              [total_documents |-> Len(sources),
               total_chunks |-> Len(scrolled),
               total_file_size |-> Sum([k \in DOMAIN sources |->
                                          First(sources[k]).payload.document_metadata.file_size]),
               total_text_length |-> total_text_length,
               average_chunk_size |-> IF Len(scrolled) > 0
                                      THEN <<total_text_length, Len(scrolled)>> ELSE <<0, 1>>])

\* get_document_statistics.  average_chunk_size is the quotient of the pair.
get_document_statistics(st) ==
    LET scrolled == ScrollAll(st)
        total_chunks == Len(scrolled)
        total_documents == Cardinality({scrolled[k].payload.source : k \in DOMAIN scrolled})
        total_size == Sum([k \in DOMAIN scrolled |->
                              scrolled[k].payload.document_metadata.file_size])
        total_text_length == Sum([k \in DOMAIN scrolled |-> scrolled[k].payload.chunk_length])
        avg_chunk_size == IF total_chunks > 0 THEN <<total_text_length, total_chunks>> ELSE <<0, 1>>
        seen == [k \in DOMAIN scrolled |-> [id |-> scrolled[k].id, vector |-> scrolled[k].vector]]
    IN  Reply(st, "none", seen, <<>>, <<>>, <<>>,
              [total_documents |-> total_documents,
               total_chunks |-> total_chunks,
               total_file_size |-> total_size,
               total_text_length |-> total_text_length,
               average_chunk_size |-> avg_chunk_size])

----------------------------------------------------------------------------
(* The catalog as a state machine: one action per call *)

\* Texts of the documents that are ingested: a blank one, and one of m chunks
\* for every m up to one more than a scroll page holds.
DocTexts ==
    {<<" ", "\n">>} \cup
    {Letters(m * (chunk_size - chunk_overlap)) : m \in 1..(ScrollLimit + 1)}

\* os.stat(pdf_path).st_size of the file a text was extracted from.
FileSize(t) == 10 * (Len(t) + 1)

\* Ids that are derived from the position of the chunk, not drawn afresh.
IdsByPosition(st, n) ==
    IF MaxPoints < n THEN {} ELSE {[k \in 1..n |-> k]}

\* The fresh ids of the n points of a batch (uuid4 draws): the n smallest
\* unused ids, given to the chunks in ascending or in descending order.
FreshIds(st, n) ==
    LET free == Ascending(IdPool \ DOMAIN st)
    IN  IF Len(free) < n THEN {}
        ELSE {[k \in 1..n |-> free[k]], [k \in 1..n |-> free[n + 1 - k]]}

\* No call is between its scroll and its write.
NoRequest == [op |-> "none"]

\* What is kept of a call: its operation, name, argument and error, and the
\* store calls it made.
Record(op, name, arg, res) ==
    [op |-> op, name |-> name, arg |-> arg, err |-> res.err,
     scrolled |-> res.scrolled, upserts |-> res.upserts, deleted |-> res.deleted]

Ingest ==
    /\ calls < MaxCalls
    /\ calls' = calls + 1
    /\ \E filename \in Names, t \in DocTexts, outcome \in ProviderOutcomes :
        LET run == chunk_text(t, chunk_size, chunk_overlap)
        IN  /\ ~run.hang
            /\ \E ids \in FreshIds(store, Len(run.chunks)) :
                  LET res == ProcessPdf(store, t, filename, FileSize(t), 1, now,
                                        outcome, ids, run.chunks)
                  IN  /\ store' = res.store
                      /\ prev' = store
                      /\ last' = Record("ingest", filename, t, res)
            /\ UNCHANGED <<now, cfgvars, chunkvars, loopvars, evalvars>>

UpdateMetadata ==
    /\ calls < MaxCalls
    /\ calls' = calls + 1
    /\ \E name \in Names, patch \in Patches, accepted \in BOOLEAN :
        \E stamps \in Stamps(Len(ScrollSource(store, name)), now) :
            LET res == update_document_metadata(store, name, patch, stamps, accepted)
            IN  /\ store' = res.store
                /\ prev' = store
                /\ last' = Record("update", name, patch, res)
                /\ now' = IF stamps = <<>> THEN now ELSE stamps[Len(stamps)]
                /\ UNCHANGED <<cfgvars, chunkvars, loopvars, evalvars>>

Delete ==
    /\ calls < MaxCalls
    /\ calls' = calls + 1
    /\ \E name \in Names :
        LET res == delete_document(store, name)
        IN  /\ store' = res.store
            /\ prev' = store
            /\ last' = Record("delete", name, <<>>, res)
            /\ UNCHANGED <<now, cfgvars, chunkvars, loopvars, evalvars>>

Init ==
    /\ chunk_size = MaxChunkSize
    /\ chunk_overlap = 1
    /\ text = <<>>
    /\ start = 0
    /\ chunks = <<>>
    /\ pc = "idle"
    /\ cuts = <<>>
    /\ store = <<>>
    /\ now = 0
    /\ prev = <<>>
    /\ last = Record("none", "", <<>>, NoCall(<<>>))
    /\ calls = 0
    /\ collections = [name \in {collection_name} |-> VectorSize]
    /\ started = TRUE
    /\ running = NoRequest
    /\ returned = <<>>
    /\ solo = [name \in Names |-> <<>>]
    /\ evaluation_history = <<>>
    /\ evaluations = 0
    /\ in_flight = {}
    /\ overlapped = 0
    /\ completed = <<>>

Next == Ingest \/ UpdateMetadata \/ Delete

Spec == Init /\ [][Next]_vars

----------------------------------------------------------------------------
(* The catalog with its read operations *)

\* The queries searched for: a blank one and two that are not.
Queries == {<<" ">>, <<"a">>, <<"a", "a", "a">>}

Limits == 0..MaxLimit

\* Lists handed to get_embeddings: empty, blank only, mixed, and padded.
EmbedInputs ==
    {<<>>, << <<" ">>, <<>> >>, << <<"a">>, <<" ">>, <<"a", "a">> >>, << <<" ", "a", "\n">> >>}

\* What is kept of a read call.
ReadRecord(op, name, arg, res) ==
    [op |-> op, name |-> name, arg |-> arg, err |-> res.err,
     scrolled |-> res.scrolled, upserts |-> res.upserts, deleted |-> res.deleted,
     sent |-> res.sent, queried |-> res.queried, hits |-> res.hits, result |-> res.result]

Search ==
    /\ \E query \in Queries, limit \in Limits, outcome \in ProviderOutcomes,
          zero_ok \in BOOLEAN :
        LET res == search_similar_chunks(store, query, limit, outcome, zero_ok)
        IN  /\ store' = res.store
            /\ prev' = store
            /\ last' = ReadRecord("search", "", [query |-> query, limit |-> limit], res)
    /\ calls < MaxCalls
    /\ calls' = calls + 1
    /\ UNCHANGED <<now, cfgvars, chunkvars, loopvars, evalvars>>

ListDocuments ==
    /\ LET res == list_documents(store)
       IN  /\ store' = res.store
           /\ prev' = store
           /\ last' = ReadRecord("list", "", <<>>, res)
    /\ calls < MaxCalls
    /\ calls' = calls + 1
    /\ UNCHANGED <<now, cfgvars, chunkvars, loopvars, evalvars>>

GetDocument ==
    /\ \E name \in Names :
        LET view == get_document(store, name)
            scrolled == ScrollSource(store, name)
            seen == [k \in DOMAIN scrolled |-> [id |-> scrolled[k].id, vector |-> scrolled[k].vector]]
            res == Reply(store, "none", seen, <<>>, <<>>, <<>>, view)
        IN  /\ store' = res.store
            /\ prev' = store
            /\ last' = ReadRecord("get", name, <<>>, res)
    /\ calls < MaxCalls
    /\ calls' = calls + 1
    /\ UNCHANGED <<now, cfgvars, chunkvars, loopvars, evalvars>>

Statistics ==
    /\ LET res == get_document_statistics(store)
       IN  /\ store' = res.store
           /\ prev' = store
           /\ last' = ReadRecord("statistics", "", <<>>, res)
    /\ calls < MaxCalls
    /\ calls' = calls + 1
    /\ UNCHANGED <<now, cfgvars, chunkvars, loopvars, evalvars>>

\* A direct call of get_embeddings.
Embed ==
    /\ \E texts \in EmbedInputs, outcome \in ProviderOutcomes :
        LET emb == get_embeddings(texts, outcome)
            res == Reply(store, emb.err, <<>>, emb.sent, <<>>, <<>>, emb.vectors)
        IN  /\ store' = res.store
            /\ prev' = store
            /\ last' = ReadRecord("embed", "", texts, res)
    /\ calls < MaxCalls
    /\ calls' = calls + 1
    /\ UNCHANGED <<now, cfgvars, chunkvars, loopvars, evalvars>>

\* The collection is filled and emptied by Ingest and Delete and read in
\* between.
NextRead ==
    \/ Ingest \/ Delete
    \/ Search \/ ListDocuments \/ GetDocument \/ Statistics \/ Embed

SpecRead == Init /\ [][NextRead]_vars

----------------------------------------------------------------------------
(* Startup: initialize_collection *)

\* The vector sizes a collection found on the server may have.
VectorSizes == {VectorSize, 768}

\* The server as the application finds it: without collection, with the
\* collection of another application, or with its own collection, of the
\* configured vector size or of another one.
ServersFound ==
    {<<>>} \cup {[name \in {"other"} |-> VectorSize]}
           \cup {[name \in {collection_name} |-> size] : size \in VectorSizes}

\* initialize_collection: the error raised or "none" and the collections
\* afterwards.
initialize_collection(cols) ==
    LET collection_names == DOMAIN cols
    IN  IF collection_name \notin collection_names
        THEN [err |-> "none", created |-> TRUE,
              collections |-> [name \in collection_names \cup {collection_name} |->
                                  IF name = collection_name THEN VectorSize ELSE cols[name]]]
        ELSE [err |-> "none", created |-> FALSE, collections |-> cols]

\* The startup event of the application.
Startup ==
    /\ ~started
    /\ LET res == initialize_collection(collections)
       IN  /\ collections' = res.collections
           /\ started' = (res.err = "none")
           /\ last' = [op |-> "startup", name |-> collection_name, arg |-> collections,
                       err |-> res.err, created |-> res.created]
    /\ UNCHANGED <<chunk_size, chunk_overlap, chunkvars, store, now, prev, calls, loopvars, evalvars>>

\* The application serves requests after its startup, here followed when the
\* collection has the vector size of the embeddings.
Serving ==
    /\ started
    /\ collection_name \in DOMAIN collections
    /\ collections[collection_name] = VectorSize

StartInit ==
    /\ collections \in ServersFound
    /\ started = FALSE
    /\ chunk_size = MaxChunkSize
    /\ chunk_overlap = 1
    /\ text = <<>>
    /\ start = 0
    /\ chunks = <<>>
    /\ pc = "idle"
    /\ cuts = <<>>
    /\ store = <<>>
    /\ now = 0
    /\ prev = <<>>
    /\ last = Record("none", "", <<>>, NoCall(<<>>))
    /\ calls = 0
    /\ running = NoRequest
    /\ returned = <<>>
    /\ solo = [name \in Names |-> <<>>]
    /\ evaluation_history = <<>>
    /\ evaluations = 0
    /\ in_flight = {}
    /\ overlapped = 0
    /\ completed = <<>>

\* The exception classes of the handlers: HTTPException is an Exception.
ExceptionClasses == {"Exception", "ValueError", "HTTPException"}

\* document_service.get_document as the handler sees it: the view or None,
\* or the exception it re-raises when the scroll fails (store_up is FALSE).
GetDocumentCall(st, document_name, store_up) ==
    IF store_up
    THEN [exc |-> "none", document |-> get_document(st, document_name)]
    ELSE [exc |-> "Exception", document |-> [found |-> FALSE]]

\* GET /documents/{document_name}: the status answered.  The body of the try
\* returns the document, or raises what the service raised or the
\* HTTPException(404) of "if not document"; the except clause catches every
\* Exception and raises HTTPException(500).
get_document_endpoint(st, document_name, store_up) ==
    LET call == GetDocumentCall(st, document_name, store_up)
        in_try == IF call.exc # "none" THEN [exc |-> call.exc, status_code |-> 0]
                  ELSE IF ~call.document.found
                       THEN [exc |-> "HTTPException", status_code |-> 404]
                  ELSE [exc |-> "none", status_code |-> 200]
    IN  IF in_try.exc \in ExceptionClasses
        THEN [status_code |-> 500, raised_in_try |-> in_try,
              service_raised |-> call.exc # "none", absent |-> call.exc = "none" /\ ~call.document.found]
        ELSE [status_code |-> in_try.status_code, raised_in_try |-> in_try,
              service_raised |-> FALSE, absent |-> FALSE]

HttpGetDocument ==
    /\ calls < MaxCalls
    /\ calls' = calls + 1
    /\ \E name \in Names, store_up \in BOOLEAN :
        LET res == get_document_endpoint(store, name, store_up)
        IN  last' = [op |-> "http_get", name |-> name, arg |-> store_up,
                     status_code |-> res.status_code,
                     service_raised |-> res.service_raised,
                     absent |-> res.absent]
    /\ prev' = store
    /\ UNCHANGED <<store, now, cfgvars, chunkvars, loopvars, evalvars>>

ServeIngest == Serving /\ Ingest
ServeDelete == Serving /\ Delete
ServeGet == Serving /\ GetDocument
ServeHttpGet == Serving /\ HttpGetDocument

NextStart == Startup \/ ServeIngest \/ ServeDelete \/ ServeGet \/ ServeHttpGet

SpecStart == StartInit /\ [][NextStart]_vars

----------------------------------------------------------------------------
(* The calls on the event loop, scroll and write as separate steps *)

\* An event loop that takes up a call while another one is under way.
AlwaysFree == TRUE

\* The handlers are coroutines of one event loop and the service methods they
\* await contain no await of their own (the Qdrant and OpenAI clients are the
\* blocking ones): a call that has started runs to its return before the
\* loop takes up another one.
LoopFree == running = NoRequest

\* The points of source name in st, by id.
OnlySource(st, name) ==
    [i \in {j \in DOMAIN st : st[j].payload.source = name} |-> st[i]]

Returned(op, name, res, had) == [op |-> op, name |-> name, err |-> res.err, had |-> had]

\* The history with one more call, the last two kept.
Return(history, call) ==
    LET all == Append(history, call)
    IN  SubSeq(all, Max(1, Len(all) - 1), Len(all))

\* process_pdf makes one store call, the upsert at its end.
LoopIngest ==
    /\ LoopFree
    /\ calls < MaxCalls
    /\ calls' = calls + 1
    /\ \E filename \in Names, t \in DocTexts, outcome \in ProviderOutcomes :
        LET run == chunk_text(t, chunk_size, chunk_overlap)
        IN  /\ ~run.hang
            /\ \E ids \in FreshIds(store, Len(run.chunks)) :
                  LET res == ProcessPdf(store, t, filename, FileSize(t), 1, now,
                                        outcome, ids, run.chunks)
                      alone == ProcessPdf(solo[filename], t, filename, FileSize(t), 1, now,
                                          outcome, ids, run.chunks)
                  IN  /\ store' = res.store
                      /\ solo' = [solo EXCEPT ![filename] = alone.store]
                      /\ returned' = Return(returned,
                                            Returned("ingest", filename, res,
                                                     Cardinality(PointsOf(store, filename))))
    /\ UNCHANGED <<now, prev, last, running, cfgvars, chunkvars, evalvars>>

\* update_document_metadata up to the return of its scroll.
BeginUpdate ==
    /\ LoopFree
    /\ calls < MaxCalls
    /\ calls' = calls + 1
    /\ \E name \in Names, patch \in Patches :
        running' = [op |-> "update", name |-> name, arg |-> patch,
                    scrolled |-> ScrollSource(store, name),
                    alone |-> ScrollSource(solo[name], name),
                    had |-> Cardinality(PointsOf(store, name))]
    /\ UNCHANGED <<store, now, prev, last, returned, solo, cfgvars, chunkvars, evalvars>>

\* update_document_metadata from there to its return.
FinishUpdate ==
    /\ running.op = "update"
    /\ \E accepted \in BOOLEAN, stamps \in Stamps(Len(running.scrolled), now) :
        LET res == UpdateAfterScroll(store, running.scrolled, running.arg, stamps, accepted)
            alone == UpdateAfterScroll(solo[running.name], running.alone, running.arg,
                                       stamps, accepted)
        IN  /\ store' = res.store
            /\ solo' = [solo EXCEPT ![running.name] = alone.store]
            /\ returned' = Return(returned, Returned("update", running.name, res, running.had))
            /\ now' = IF stamps = <<>> THEN now ELSE stamps[Len(stamps)]
    /\ running' = NoRequest
    /\ UNCHANGED <<prev, last, calls, cfgvars, chunkvars, evalvars>>

\* delete_document up to the return of its scroll.
BeginDelete ==
    /\ LoopFree
    /\ calls < MaxCalls
    /\ calls' = calls + 1
    /\ \E name \in Names :
        running' = [op |-> "delete", name |-> name, arg |-> <<>>,
                    scrolled |-> ScrollSource(store, name),
                    alone |-> ScrollSource(solo[name], name),
                    had |-> Cardinality(PointsOf(store, name))]
    /\ UNCHANGED <<store, now, prev, last, returned, solo, cfgvars, chunkvars, evalvars>>

\* delete_document from there to its return.
FinishDelete ==
    /\ running.op = "delete"
    /\ LET res == DeleteAfterScroll(store, running.scrolled)
           alone == DeleteAfterScroll(solo[running.name], running.alone)
       IN  /\ store' = res.store
           /\ solo' = [solo EXCEPT ![running.name] = alone.store]
           /\ returned' = Return(returned, Returned("delete", running.name, res, running.had))
    /\ running' = NoRequest
    /\ UNCHANGED <<now, prev, last, calls, cfgvars, chunkvars, evalvars>>

NextLoop == LoopIngest \/ BeginUpdate \/ FinishUpdate \/ BeginDelete \/ FinishDelete

SpecLoop == Init /\ [][NextLoop]_vars

----------------------------------------------------------------------------
(* The evaluation history of EvaluationService *)

HistoryCap == 100
RecentCount == 10

\* An entry of the history, identified by its "timestamp": the clock read at
\* the start of the call, which numbers the calls in the order they started.
EvaluationResults(timestamp) == timestamp

\* The outcomes of the try block of evaluate_response: it reaches its return,
\* or an exception (or the cancellation of the request) leaves it before the
\* append.  A metric that fails is a score of 0.0 in a result that returns.
EvaluationOutcomes == {"returned", "raised"}

KeepOldest(history) ==
    IF Len(history) > HistoryCap THEN PySlice(history, 0, HistoryCap) ELSE history

\* if len(history) > 100: history = history[-100:]
KeepLast(history) ==
    IF Len(history) > HistoryCap
    THEN PySlice(history, Len(history) - HistoryCap, Len(history))
    ELSE history

\* The end of the try block: append, trim, return.
StoreInHistory(history, evaluation_results) ==
    KeepLast(Append(history, evaluation_results))

\* get_evaluation_summary: the fields that are read off the history itself.
get_evaluation_summary(history) ==
    IF history = <<>>
    THEN [total_evaluations |-> 0, recent |-> <<>>, last_evaluation |-> 0]
    ELSE [total_evaluations |-> Len(history),
          recent |-> PySlice(history, Len(history) - RecentCount, Len(history)),
          last_evaluation |-> history[Len(history)]]

\* evaluate_response with no other call on the event loop, reaching its
\* return: up to the await, the gather, and the rest of the try block.  The
\* exploration fills the history with such calls; the calls that overlap or
\* raise are the two steps below.
EvaluateAlone ==
    /\ in_flight = {}
    /\ overlapped = 0
    /\ evaluations < HistoryCap + MaxEvals
    /\ evaluations' = evaluations + 1
    /\ evaluation_history' =
            StoreInHistory(evaluation_history, EvaluationResults(evaluations + 1))
    /\ completed' = Append(completed, EvaluationResults(evaluations + 1))
    /\ UNCHANGED <<in_flight, overlapped, cfgvars, chunkvars, storevars, loopvars>>

\* evaluate_response up to "await asyncio.gather(...)": the timestamp is taken.
\* overlapped counts these calls, whether or not another call is in flight.
BeginEvaluate ==
    /\ overlapped < MaxEvals
    /\ overlapped' = overlapped + 1
    /\ evaluations' = evaluations + 1
    /\ in_flight' = in_flight \cup {evaluations + 1}
    /\ UNCHANGED <<evaluation_history, completed, cfgvars, chunkvars, storevars, loopvars>>

\* evaluate_response after the await: no await follows, so the append and the
\* trim are one step of the event loop.
FinishEvaluate ==
    \E timestamp \in in_flight, outcome \in EvaluationOutcomes :
        /\ in_flight' = in_flight \ {timestamp}
        /\ IF outcome = "returned"
           THEN /\ evaluation_history' =
                       StoreInHistory(evaluation_history, EvaluationResults(timestamp))
                /\ completed' = Append(completed, EvaluationResults(timestamp))
           ELSE UNCHANGED <<evaluation_history, completed>>
        /\ UNCHANGED <<evaluations, overlapped, cfgvars, chunkvars, storevars, loopvars>>

NextEval == EvaluateAlone \/ BeginEvaluate \/ FinishEvaluate

SpecEval == Init /\ [][NextEval]_vars

----------------------------------------------------------------------------
(* The texts and configurations the chunker is run on *)

Alphabet == {"a", " ", ".", "\n"}

RECURSIVE TextsOfLen(_)
TextsOfLen(n) ==
    IF n = 0 THEN {<<>>}
    ELSE {Append(t, c) : t \in TextsOfLen(n - 1), c \in Alphabet}

ShortTexts == UNION {TextsOfLen(n) : n \in 0..MaxLen}

\* A text of n letters "a" with the delimiter ". " written at each offset of at.
LongText(n, at) ==
    [i \in 1..n |-> IF (i - 1) \in at THEN "."
                    ELSE IF (i - 2) \in at THEN " " ELSE "a"]

\* Offsets of ". " tried in the long texts: before the window of the first
\* candidate end (1000), at its first offset, inside it and at its last offset.
LongDelims == {{}, {995}, {899}, {900}, {999}, {899, 950}, {950, 995}, {995, 1100}}

LongTexts == {LongText(1200, at) : at \in LongDelims} \cup {LongText(900, {})}

\* The overlaps the long texts are cut with: the default, and a large one that
\* is still below the chunk size.
LongOverlaps == {DefaultChunkOverlap, DefaultChunkSize - 50}

ValidConfig(size, overlap) == size > 0 /\ 0 <= overlap /\ overlap < size

ChunkInit ==
    /\ \/ /\ text \in ShortTexts
          /\ chunk_size \in 1..MaxChunkSize
          /\ chunk_overlap \in 0..MaxChunkSize
       \/ /\ text \in LongTexts
          /\ chunk_size = DefaultChunkSize
          /\ chunk_overlap \in LongOverlaps
    /\ start = 0
    /\ chunks = <<>>
    /\ pc = "loop"
    /\ cuts = <<>>
    /\ store = <<>>
    /\ now = 0
    /\ prev = <<>>
    /\ last = Record("none", "", <<>>, NoCall(<<>>))
    /\ calls = 0
    /\ collections = [name \in {collection_name} |-> VectorSize]
    /\ started = TRUE
    /\ running = NoRequest
    /\ returned = <<>>
    /\ solo = [name \in Names |-> <<>>]
    /\ evaluation_history = <<>>
    /\ evaluations = 0
    /\ in_flight = {}
    /\ overlapped = 0
    /\ completed = <<>>

ChunkNext == ChunkLoop \/ ChunkReturn

SpecChunk == ChunkInit /\ [][ChunkNext]_vars

----------------------------------------------------------------------------
(* Properties of chunk_text, checked under SpecChunk *)

\* The offsets i at which a sentence ending (". ", "! ", "? " or a blank
\* line) begins in t.
IsDelimiterAt(t, i) ==
    /\ i >= 0
    /\ i + 2 <= Len(t)
    /\ \/ t[i + 1] \in {".", "!", "?"} /\ t[i + 2] = " "
       \/ t[i + 1] = "\n" /\ t[i + 2] = "\n"

DelimitersBefore(t, end) == {i \in Max(0, end - Window)..(end - 1) : IsDelimiterAt(t, i)}

SetMax(S) == CHOOSE x \in S : \A y \in S : y <= x

\* C2: with chunk_size > 0 and 0 <= chunk_overlap < chunk_size the start
\* offsets of successive iterations are strictly increasing (so the loop ends).
C2_StartsStrictlyIncrease ==
    ValidConfig(chunk_size, chunk_overlap) =>
        /\ \A k \in 1..(Len(cuts) - 1) : cuts[k][1] < cuts[k + 1][1]
        /\ cuts # <<>> => cuts[Len(cuts)][1] < start

\* C3: with chunk_overlap >= chunk_size chunk_text raises at once instead of
\* entering the loop: no iteration of the loop is ever run.
C3_OverlapRejected ==
    chunk_overlap >= chunk_size => cuts = <<>>

\* C4: a text shorter than chunk_size (valid configuration) is returned as
\* exactly one chunk, the trimmed text.  (Stated for the texts that are not
\* blank: a blank text has no non-empty chunk to return.)
C4_ShortTextOneChunk ==
    (/\ pc = "done"
     /\ ValidConfig(chunk_size, chunk_overlap)
     /\ Len(text) < chunk_size
     /\ Strip(text) # <<>>) => chunks = <<Strip(text)>>

\* C9: the chunk of every iteration ends just after the rightmost sentence
\* ending that begins in the 100 characters before the candidate end when the
\* candidate end is before the end of the text and there is one, and at the
\* candidate end start + chunk_size otherwise; with chunk_size = 1000 and
\* ". " at offset 995 as the last ending the first chunk ends at offset 997.
C9_BreakAtRightmostDelimiter ==
    /\ \A k \in DOMAIN cuts :
          LET end == cuts[k][1] + chunk_size
              hits == DelimitersBefore(text, end)
          IN  cuts[k][2] = IF end < Len(text) /\ hits # {} THEN SetMax(hits) + 2 ELSE end
    /\ (/\ chunk_size = 1000
        /\ cuts # <<>>
        /\ Len(text) > 1000
        /\ IsDelimiterAt(text, 995)
        /\ \A i \in 996..999 : ~IsDelimiterAt(text, i)) => cuts[1][2] = 997

\* C9, reached: chunk_size = 1000, ". " at offset 995 behind an earlier ending
\* of the window, and the first chunk cut at 997.
C9_Witness ==
    /\ chunk_size = 1000
    /\ IsDelimiterAt(text, 950)
    /\ IsDelimiterAt(text, 995)
    /\ cuts # <<>>
    /\ cuts[1] = <<0, 997>>

----------------------------------------------------------------------------
(* Properties of the catalog, checked under Spec *)

Metadata(st, i) == st[i].payload.document_metadata

\* C1: all points that share a source name carry the same document_metadata.
C1_SameSourceSameMetadata ==
    \A i, j \in DOMAIN store :
        store[i].payload.source = store[j].payload.source
            => Metadata(store, i) = Metadata(store, j)

\* C5: in update_document_metadata the vector of every scrolled record is the
\* stored vector of that point, and after a successful call every such point
\* is stored under the same id with that same vector.
C5_VectorPreserved ==
    last.op = "update" =>
        \A k \in DOMAIN last.scrolled :
            LET i == last.scrolled[k].id
            IN  /\ last.scrolled[k].vector = prev[i].vector
                /\ last.err = "none" => (i \in DOMAIN store /\ store[i].vector = prev[i].vector)

\* The collection st without the points of source name.
WithoutSource(st, name) ==
    [i \in {j \in DOMAIN st : st[j].payload.source # name} |-> st[i]]

DeleteIsExact ==
    /\ store = WithoutSource(prev, last.name)
    /\ delete_document(store, last.name).err = "not_found"

LastChunks == chunk_text(last.arg, chunk_size, chunk_overlap).chunks

\* C7: an ingest call that fails leaves the collection as it was and upserts
\* nothing; one that succeeds made exactly one upsert, of one point per chunk
\* of the text, and the collection is the old one plus that batch.
C7_IngestAllOrNothing ==
    last.op = "ingest" =>
        /\ last.err # "none" => (store = prev /\ last.upserts = <<>>)
        /\ last.err = "none" =>
              /\ Len(last.upserts) = 1
              /\ Len(last.upserts[1]) = Len(LastChunks)
              /\ \A k \in DOMAIN LastChunks : last.upserts[1][k].payload.text = LastChunks[k]
              /\ DOMAIN store = DOMAIN prev \cup {p.id : p \in Range(last.upserts[1])}
              /\ Cardinality(DOMAIN store) = Cardinality(DOMAIN prev) + Len(LastChunks)
              /\ \A i \in DOMAIN prev : store[i] = prev[i]

\* C7, reached: an ingest call failed on the number of vectors while the
\* collection held points.
C7_Witness ==
    /\ last.op = "ingest"
    /\ last.err = "mismatch"
    /\ store # <<>>

RoundTrip ==
    LET view == get_document(store, last.name)
    IN  /\ view.found
        /\ view.actual_chunks = Len(LastChunks)
        /\ \A k \in 1..(Len(view.chunks) - 1) :
              view.chunks[k].chunk_index < view.chunks[k + 1].chunk_index

C10_PatchMergedOnEveryPoint ==
    (last.op = "update" /\ PointsOf(prev, last.name) # {}) =>
        \A i \in PointsOf(prev, last.name) :
            /\ i \in DOMAIN store
            /\ \A key \in DOMAIN last.arg :
                  /\ key \in DOMAIN Metadata(store, i)
                  /\ Metadata(store, i)[key] = last.arg[key]
            /\ \A key \in DOMAIN Metadata(prev, i) \ (DOMAIN last.arg \cup {"updated_at"}) :
                  /\ key \in DOMAIN Metadata(store, i)
                  /\ Metadata(store, i)[key] = Metadata(prev, i)[key]

\* C11: update_document_metadata and delete_document on a name that has no
\* point in the collection raise not-found, upsert nothing, delete nothing
\* and leave the collection as it was.
C11_UnknownNameNotFound ==
    (/\ last.op \in {"update", "delete"}
     /\ PointsOf(prev, last.name) = {}) =>
        /\ last.err = "not_found"
        /\ last.upserts = <<>>
        /\ last.deleted = {}
        /\ store = prev

\* C11, reached: an update of a name without points was refused while the
\* collection held the points of another document.
C11_Witness ==
    /\ last.op = "update"
    /\ last.err = "not_found"
    /\ PointsOf(prev, last.name) = {}
    /\ store # <<>>

\* The ids of the points the last ingest call upserted.
LastIds == {p.id : p \in Range(last.upserts[1])}

\* The last ingest call added its points beside those its filename had.
ReingestAdds ==
    /\ LastIds \cap DOMAIN prev = {}
    /\ Cardinality(LastIds) = Len(LastChunks)
    /\ \A i \in DOMAIN prev : i \in DOMAIN store /\ store[i] = prev[i]
    /\ PointsOf(store, last.name) = PointsOf(prev, last.name) \cup LastIds

GetCountsBoth ==
    LET view == get_document(store, last.name)
    IN  /\ view.found
        /\ view.actual_chunks = Cardinality(PointsOf(prev, last.name)) + Len(LastChunks)

----------------------------------------------------------------------------
(* Properties of the read operations, checked under SpecRead *)

\* The sum of the file sizes carried by the points S of the collection st.
RECURSIVE FileSizeSum(_, _)
FileSizeSum(st, S) ==
    IF S = {} THEN 0
    ELSE LET i == CHOOSE i \in S : TRUE
         IN  Metadata(st, i).file_size + FileSizeSum(st, S \ {i})

StatisticsCountAll ==
    /\ last.err = "none"
    /\ last.result.total_chunks = Cardinality(DOMAIN store)
    /\ last.result.total_documents = Cardinality({store[i].payload.source : i \in DOMAIN store})
    /\ last.result.total_file_size = FileSizeSum(store, DOMAIN store)

----------------------------------------------------------------------------
(* Properties of the startup, checked under SpecStart *)

\* C15: initialize_collection creates the collection when it is absent, does
\* nothing when it exists with the configured vector size, and fails with a
\* configuration error when it exists with another vector size.
C15_EnsureCollection ==
    last.op = "startup" =>
        IF collection_name \notin DOMAIN last.arg
        THEN /\ last.err = "none"
             /\ collections[collection_name] = VectorSize
             /\ \A name \in DOMAIN last.arg : collections[name] = last.arg[name]
        ELSE IF last.arg[collection_name] = VectorSize
        THEN last.err = "none" /\ collections = last.arg
        ELSE last.err # "none" /\ collections = last.arg /\ ~started

\* The ids of the page an unfiltered scroll of the collection returns.
PageIds == Range(ScrollPage(store, DOMAIN store))

PageIdsOf(source) == {i \in PageIds : store[i].payload.source = source}

C18_SearchMapsHits ==
    (last.op = "search" /\ last.queried # <<>>) =>
        /\ last.err = "none"
        /\ Len(last.result) = Len(last.hits)
        /\ Len(last.result) <= last.arg.limit
        /\ \A k \in DOMAIN last.result :
              /\ last.result[k].text = last.hits[k].payload.text
              /\ last.result[k].source = last.hits[k].payload.source
              /\ last.result[k].score = last.hits[k].score
              /\ last.result[k].chunk_index = last.hits[k].payload.chunk_index
        /\ \A k \in 1..(Len(last.result) - 1) : last.result[k].score >= last.result[k + 1].score
        /\ last.arg.limit = 0 => last.result = <<>>

\* The positions of the texts that are not blank.
NonBlank(texts) == {k \in DOMAIN texts : Strip(texts[k]) # <<>>}

\* C19: get_embeddings sends the provider only the inputs that are not blank,
\* in their order, and when none is left raises the empty-input error
\* without calling the provider; a search with a blank query therefore fails
\* with that error before the store is queried.
C19_BlankInputsDropped ==
    /\ last.op = "embed" =>
          IF NonBlank(last.arg) = {}
          THEN last.err = "empty_input" /\ last.sent = <<>>
          ELSE /\ Len(last.sent) = 1
               /\ Len(last.sent[1]) = Cardinality(NonBlank(last.arg))
               /\ \A k \in DOMAIN last.sent[1] : Strip(last.sent[1][k]) # <<>>
               /\ \A k \in NonBlank(last.arg) :
                     last.sent[1][Cardinality({j \in NonBlank(last.arg) : j <= k})]
                         = Strip(last.arg[k])
    /\ (last.op = "search" /\ Strip(last.arg.query) = <<>>) =>
          /\ last.err = "empty_input"
          /\ last.sent = <<>>
          /\ last.queried = <<>>
          /\ last.result = <<>>

\* C19, reached: a search with a blank query was refused while the
\* collection held points.
C19_Witness ==
    /\ last.op = "search"
    /\ Strip(last.arg.query) = <<>>
    /\ last.err = "empty_input"
    /\ store # <<>>

ReadOps == {"search", "list", "get", "statistics"}

\* C20: search, list, get and statistics leave the collection as it was
\* (ids, vectors and payloads), whether they return or raise, and make no
\* upsert and no delete.
C20_ReadsChangeNothing ==
    last.op \in ReadOps =>
        /\ store = prev
        /\ last.upserts = <<>>
        /\ last.deleted = {}

\* C20, reached: a search returned two hits from a collection that it left
\* as it was.
C20_Witness ==
    /\ last.op = "search"
    /\ last.err = "none"
    /\ Len(last.result) = 2
    /\ store = prev
    /\ store # <<>>

----------------------------------------------------------------------------
(* Properties of the calls on the event loop, checked under SpecLoop *)

Succeeded(k, op, name) ==
    /\ k \in DOMAIN returned
    /\ returned[k].op = op
    /\ returned[k].name = name
    /\ returned[k].err = "none"

----------------------------------------------------------------------------
(* Properties of the HTTP handlers, checked under SpecStart *)

\* C21: GET /documents/{document_name} answers 404 when get_document returns
\* None for the name, and 500 only when get_document raises.
C21_AbsentIs404 ==
    last.op = "http_get" =>
        /\ last.absent => last.status_code = 404
        /\ last.status_code = 500 => last.service_raised

----------------------------------------------------------------------------
(* Properties of the evaluation history, checked under SpecEval *)

\* C22: after any sequence of evaluate_response calls the history holds at
\* most 100 entries, and they are the most recent evaluations that completed,
\* in the order they completed: the oldest entry is the one evicted.
C22_HistoryIsLastCompleted ==
    /\ Len(evaluation_history) <= HistoryCap
    /\ get_evaluation_summary(evaluation_history).total_evaluations <= HistoryCap
    /\ evaluation_history =
          SubSeq(completed, Max(1, Len(completed) - HistoryCap + 1), Len(completed))

\* Entries have been evicted, a call has raised, and two entries of the
\* history completed in the reverse of the order they started.
C22_Witness ==
    /\ Len(completed) > HistoryCap
    /\ evaluations > Len(completed) + Cardinality(in_flight)
    /\ \E i \in 1..(Len(evaluation_history) - 1) :
          evaluation_history[i] > evaluation_history[i + 1]

----------------------------------------------------------------------------
(* Further properties of chunk_text, checked under SpecChunk *)

\* C23: every chunk emitted by chunk_text is non-empty, has no leading or
\* trailing whitespace and is at most chunk_size characters long, whatever
\* the text and wherever its sentence delimiters are, a delimiter that starts
\* at the last character before the candidate end included.
C23_ChunksTrimmedAndBounded ==
    \A k \in 1..Len(chunks) :
        /\ chunks[k] # <<>>
        /\ chunks[k][1] \notin Whitespace
        /\ chunks[k][Len(chunks[k])] \notin Whitespace
        /\ Len(chunks[k]) <= chunk_size

\* A delimiter starts at the last character before the candidate end: the
\* slice cut is chunk_size + 1 long, and the chunk emitted from it is
\* chunk_size long.
C23_Witness ==
    \E k \in 1..Len(cuts) :
        LET s == cuts[k][1]
            e == cuts[k][2]
        IN  /\ s >= 0
            /\ e = s + chunk_size + 1
            /\ e <= Len(text)
            /\ \E j \in 1..Len(sentence_endings) :
                  PySlice(text, e - 2, e) = sentence_endings[j]
            /\ Len(Strip(PySlice(text, s, e))) = chunk_size
            /\ Strip(PySlice(text, s, e)) \in Range(chunks)

\* The offsets of the text that the slice text[s:e] of Python holds.
SliceOffsets(t, s, e) == {i \in 0..(Len(t) - 1) : PyClamp(Len(t), s) <= i /\ i < PyClamp(Len(t), e)}

\* C24: for 0 <= chunk_overlap < chunk_size the ranges [start, end) leave no
\* gap: each range begins exactly chunk_overlap characters before the end of
\* the range before it, start never becomes negative, and once chunk_text
\* has returned every non-whitespace character of the text lies in a range
\* whose chunk was emitted.
C24_RangesLeaveNoGap ==
    ValidConfig(chunk_size, chunk_overlap) =>
        /\ \A k \in 1..(Len(cuts) - 1) : cuts[k + 1][1] = cuts[k][2] - chunk_overlap
        /\ cuts # <<>> => start = cuts[Len(cuts)][2] - chunk_overlap
        /\ start >= 0
        /\ \A k \in 1..Len(cuts) : cuts[k][1] >= 0
        /\ pc = "done" =>
              \A i \in 0..(Len(text) - 1) :
                  text[i + 1] \notin Whitespace =>
                      \E k \in 1..Len(cuts) :
                          /\ i \in SliceOffsets(text, cuts[k][1], cuts[k][2])
                          /\ Strip(PySlice(text, cuts[k][1], cuts[k][2])) # <<>>

====
